---- MODULE Spec2Model ----
(***************************************************************************)
(* Model of the yad2 scraper: the change-detection and delivery pipeline   *)
(* of index.js (multi-page version, src/unnamed/part_001) and the          *)
(* single-page classify of src/scraper.js.                                 *)
(*                                                                         *)
(* Strings are sequences of tokens (a token is a run of characters that    *)
(* the code never splits): "https://h/item/a1?x=1" is                      *)
(* <<"https://", "h", "/", "item", "/", "a1", "?", "x=1">>.  The empty     *)
(* sequence is the empty string, and also stands for null where the code   *)
(* only tests truthiness (getItemId's result).                             *)
(***************************************************************************)
EXTENDS Integers, Sequences, FiniteSets, TLC

VARIABLES
    file,             \* ./data/<topic>_ids.json: [kind, arr]
    pushFlag,         \* the push_me marker exists
    bootstrapIfEmpty, \* config.bootstrapIfEmpty !== false
    ver,              \* which checkIfHasNewItem runs: "multi" (part_001) or "single" (scraper.js)
    lastCall,         \* history: the last checkIfHasNewItem call (input, files before and after, result)
    pc,               \* position of scrape() in its pipeline
    run,              \* number of the current process run (poll)
    p,                \* collectItemsAcrossPages: loop index
    pageUrl,          \* collectItemsAcrossPages: next link carried over
    usedDetectedNext, \* collectItemsAcrossPages: follow-next mode
    aggregated,       \* collectItemsAcrossPages: result so far
    seenIds,          \* collectItemsAcrossPages: ids seen in this run
    fetchedRaw,       \* history: raw items of every page fetched successfully in this collect
    fetchLog,         \* history: the URL and outcome of every fetch of this collect
    traceCollect,     \* the two histories above are kept (only where collect is studied alone)
    newItems,         \* scrape: result of checkIfHasNewItem
    groups,           \* notifyNewItems: chunks of lines
    chunkIdx,         \* notifyNewItems: loop index i (0-based)
    sent,             \* history: kinds of the messages the transport accepted in this run
    reported,         \* history: id -> number of polls that reported it as new (capped)
    observed,         \* history: ids seen by classify in any poll
    owed,             \* history: ids reported as new whose chunk was never delivered
    err,              \* scrape: the step whose error its catch block caught ("none" before)
    thrown,           \* scrape: the error its promise rejected with ("none" before)
    noticeCalls,      \* history: safeSend calls of the failure notice in this run
    batch,            \* chunkLinesByChars called alone: its arguments and its result
    sendPc,           \* safeSend called alone: position in its loop
    attempt,          \* safeSend: let attempt
    sleeps,           \* history: the waitMs of every sleep of this safeSend call
    sendLog,          \* history: the transport's answer to every attempt of this call
    sendErr,          \* history: the attempt whose error the call raised (0: none)
    disabled,         \* program: project.disabled of every project of the configuration
    tpc,              \* program: position of every project's scrape()
    prog,             \* program: state of the promise of program()
    exitCode,         \* process.exitCode
    tpcAtSettle,      \* history: tpc at the moment the promise of program() settled
    topicKey,         \* program: project.topic of every project
    store,            \* program: the ids in the per-topic file of every topic key
    collected,        \* program: the ids collectItemsAcrossPages returned to every project
    written,          \* history: for each topic key, the ids ever written to its file
    ioLog             \* history: for each topic key, the loads and writes of its file, in order

storeVars == <<file, pushFlag, bootstrapIfEmpty, ver, lastCall>>
collectVars == <<p, pageUrl, usedDetectedNext, aggregated, seenIds, fetchedRaw, fetchLog, traceCollect>>
notifyVars == <<newItems, groups, chunkIdx>>
histVars == <<reported, observed, owed>>
errVars == <<err, thrown, noticeCalls>>
sendVars == <<sendPc, attempt, sleeps, sendLog, sendErr>>
shareVars == <<store, collected, written, ioLog>>
progVars == <<disabled, tpc, prog, exitCode, tpcAtSettle, topicKey, shareVars>>
pipelineVars == <<storeVars, pc, run, collectVars, notifyVars, sent, histVars, errVars>>
\* what the pipeline of one topic never touches
unitVars == <<batch, sendVars, progVars>>
vars == <<storeVars, pc, run, collectVars, notifyVars, sent, histVars, errVars, unitVars>>

(***************************************************************************)
(* Bounds and scaled program constants                                     *)
(***************************************************************************)
\* slice(-10000) of part_001 (slice(-5000) in scraper.js), scaled so that
\* eviction is reachable with a handful of identifiers.
KeepIds == 3
\* MAX_CHARS = 3900, scaled so that one chunk holds one line of the model's links.
MAX_CHARS == 100
\* const reserve = 40 in chunkLinesByChars
Reserve == 40
\* the "- 10" of the truncation in chunkLinesByChars
TruncSlack == 10
\* { maxRetries = 5 } of safeSend
MaxRetries == 5
\* milliseconds per second, and the base of the exponential fallback, in safeSend
MsPerSec == 1000
BackoffBase == 1000
\* the status of "too many requests"
TooManyRequests == 429
\* longest entry list drawn freely for classify
MaxShort == 2
\* pagesToScan of the topic
MaxPages == 3
\* process runs (polls) explored
MaxRuns == 3
\* longest list of lines given to chunkLinesByChars alone
MaxLines == 3
\* projects of the configuration
MaxTopics == 2

(***************************************************************************)
(* Sequence helpers                                                        *)
(***************************************************************************)
Range(s) == {s[i] : i \in 1..Len(s)}

InSeq(x, s) == \E i \in 1..Len(s) : s[i] = x

RECURSIVE SeqsUpTo(_, _)
SeqsUpTo(S, n) ==
    IF n = 0 THEN {<<>>}
    ELSE LET shorter == SeqsUpTo(S, n - 1)
         IN  shorter \cup {Append(s, x) : s \in {t \in shorter : Len(t) = n - 1}, x \in S}

\* new Set(array): insertion order, first occurrence kept
RECURSIVE SetFromArray(_)
SetFromArray(s) ==
    IF s = <<>> THEN <<>>
    ELSE LET front == SetFromArray(SubSeq(s, 1, Len(s) - 1))
             x == s[Len(s)]
         IN  IF InSeq(x, front) THEN front ELSE Append(front, x)

\* Set.prototype.add: an element already present keeps its place
SetAdd(set, x) == IF InSeq(x, set) THEN set ELSE Append(set, x)

\* array.slice(-n)
SliceLast(s, n) == IF Len(s) <= n THEN s ELSE SubSeq(s, Len(s) - n + 1, Len(s))

(***************************************************************************)
(* Strings and URLs                                                        *)
(***************************************************************************)
\* schemes of the links the pages and the legacy files hold
SchemeToks == {"https://", "http://", "HTTP://"}
HttpToks == {"https://", "http://", "HTTP://"}
HostToks == {"h"}
\* path segments made only of [A-Za-z0-9_-]
IdCharToks == {"a1", "b2", "c3", "d4", "item", "ITEM", "feed"}

\* String.prototype.length
RECURSIVE StrLen(_)
StrLen(s) == IF s = <<>> THEN 0 ELSE Len(Head(s)) + StrLen(Tail(s))

\* case folding of the /i flag, on a path segment
LowerTok(t) == IF t = "ITEM" THEN "item" ELSE t

\* the longest prefix of a segment matching [A-Za-z0-9_-]+ ("" if none)
IdPrefix(t) ==
    CASE t \in IdCharToks -> t
      [] t = "a1.html" -> "a1"
      [] OTHER -> ""

\* new URL(u) does not throw
UrlParses(u) == Len(u) >= 2 /\ u[1] \in SchemeToks /\ u[2] \in HostToks

\* index of the first "?" token, or Len + 1
QueryStart(u) ==
    IF \E i \in 1..Len(u) : u[i] = "?"
    THEN CHOOSE i \in 1..Len(u) : u[i] = "?" /\ \A j \in 1..(i - 1) : u[j] # "?"
    ELSE Len(u) + 1

\* new URL(u).pathname
Pathname(u) == SubSeq(u, 3, QueryStart(u) - 1)

\* pathname.match(/\/item\/([A-Za-z0-9_-]+)/i) succeeds at position i
ItemMatchAt(path, i) ==
    /\ i + 3 <= Len(path)
    /\ path[i] = "/"
    /\ LowerTok(path[i + 1]) = "item"
    /\ path[i + 2] = "/"
    /\ IdPrefix(path[i + 3]) # ""

getItemId(u) ==
    IF ~UrlParses(u) THEN <<>>
    ELSE LET path == Pathname(u)
             hits == {i \in 1..Len(path) : ItemMatchAt(path, i)}
         IN  IF hits = {} THEN <<>>
             ELSE LET i == CHOOSE k \in hits : \A j \in hits : k <= j
                  IN  <<IdPrefix(path[i + 3])>>

\* the links of the model
LA == <<"https://", "h", "/", "item", "/", "a1">>
LAq == <<"https://", "h", "/", "item", "/", "a1", "?", "x=1">>
LB == <<"http://", "h", "/", "item", "/", "b2">>
LC == <<"https://", "h", "/", "ITEM", "/", "c3", "?", "y=2">>
LD == <<"https://", "h", "/", "feed", "/", "item", "/", "d4">>
LN == <<"https://", "h", "/", "feed", "/", "c3">>
Links == {LA, LAq, LB, LC, LD, LN}

\* getItemId, tabulated over the links of the model
ItemIdTable == [u \in Links |-> getItemId(u)]
IdOf(u) == IF u \in Links THEN ItemIdTable[u] ELSE getItemId(u)

\* /^https?:\/\//i.test(v)
IsHttpUrl(s) == Len(s) >= 1 /\ s[1] \in HttpToks

\* url.origin: scheme and host in lower case
Origin(u) == <<(IF u[1] = "HTTP://" THEN "http://" ELSE u[1]), u[2]>>

shortenLink(u) ==
    IF UrlParses(u) THEN Origin(u) \o Pathname(u)
    ELSE SubSeq(u, 1, QueryStart(u) - 1)

(***************************************************************************)
(* JSON values and the per-topic file                                      *)
(***************************************************************************)
Str(s) == [ty |-> "str", s |-> s]
JsonNull == [ty |-> "null", s |-> <<>>]
Num(tok) == [ty |-> "num", s |-> <<tok>>]

\* Boolean(v), as used by filter(Boolean)
Truthy(v) ==
    CASE v.ty = "null" -> FALSE
      [] v.ty = "num" -> v.s # <<"0">>
      [] OTHER -> v.s # <<>>

\* String(v) for the values filter(Boolean) lets through
StringOf(v) == v.s

MissingFile == [kind |-> "missing", arr |-> <<>>]
EmptyTextFile == [kind |-> "emptyText", arr |-> <<>>]
CorruptFile == [kind |-> "corrupt", arr |-> <<>>]
NonArrayFile == [kind |-> "nonArray", arr |-> <<>>]
ArrayFile(values) == [kind |-> "array", arr |-> values]

fileExists(f) == f.kind # "missing"

\* what readJsonArray returns: an array, or the parsed value that is no array
readJsonArray(f) ==
    CASE f.kind = "missing" -> [isArray |-> TRUE, arr |-> <<>>]
      [] f.kind = "emptyText" -> [isArray |-> TRUE, arr |-> <<>>]
      [] f.kind = "corrupt" -> [isArray |-> TRUE, arr |-> <<>>]
      [] f.kind = "nonArray" -> [isArray |-> FALSE, arr |-> <<>>]
      [] OTHER -> [isArray |-> TRUE, arr |-> f.arr]

\* writeJson(filePath, data), data an array of strings
writeJson(data) == ArrayFile([i \in 1..Len(data) |-> Str(data[i])])

(***************************************************************************)
(* checkIfHasNewItem                                                       *)
(***************************************************************************)
\* mutant of MigrateValue: stored links are left as they are
MigrateValueKeepsLinks(v) == v

\* mutant of MigrateValue: the fallback to the original string is missing
MigrateValueNoFallback(v) ==
    IF v.ty = "str" /\ IsHttpUrl(v.s) THEN Str(IdOf(v.s)) ELSE v

\* the callback of prev.map(...)
MigrateValue(v) ==
    IF v.ty = "str" /\ IsHttpUrl(v.s)
    THEN LET id == IdOf(v.s) IN IF id # <<>> THEN Str(id) ELSE v
    ELSE v

Migrate(prev) == [i \in 1..Len(prev) |-> MigrateValue(prev[i])]

\* new Set(migrated.filter(Boolean).map(String)), in insertion order
KnownIdSet(migrated) ==
    LET kept == SelectSeq(migrated, Truthy)
    IN  SetFromArray([i \in 1..Len(kept) |-> StringOf(kept[i])])

\* mutant of NewItemsOf: membership is tested on the link, not on the id
NewItemsOfByLink(items, knownIds) ==
    LET IsNew(it) == IdOf(it.link) # <<>> /\ ~InSeq(it.link, knownIds)
    IN  SelectSeq(items, IsNew)

\* part_001: the loop that builds newItems
NewItemsOf(items, knownIds) ==
    LET IsNew(it) == IdOf(it.link) # <<>> /\ ~InSeq(IdOf(it.link), knownIds)
    IN  SelectSeq(items, IsNew)

\* the loops "for (const it of items) { id = getItemId(it.link); if (id) set.add(id) }"
RECURSIVE AddIdsOf(_, _)
AddIdsOf(set, items) ==
    IF items = <<>> THEN set
    ELSE LET id == IdOf(Head(items).link)
         IN  AddIdsOf(IF id # <<>> THEN SetAdd(set, id) ELSE set, Tail(items))

\* mutant of BootstrapCond: the bootstrapIfEmpty option is not consulted
BootstrapCondAnyConfig(existedBefore, knownIds, boot) == ~existedBefore \/ knownIds = <<>>

\* mutant of BootstrapCond: an existing file with no known id does not bootstrap
BootstrapCondMissingOnly(existedBefore, knownIds, boot) == ~existedBefore /\ boot

\* part_001: the bootstrap branch is taken
BootstrapCond(existedBefore, knownIds, boot) ==
    (~existedBefore \/ knownIds = <<>>) /\ boot

\* mutant of MergeAndPersist: the file is written whatever the poll holds
MergeAndPersistAlways(f, knownIds, items) ==
    writeJson(SliceLast(AddIdsOf(knownIds, items), KeepIds))

\* mutant of MergeAndPersist: the ids of the poll are not merged before the write
MergeAndPersistNoMerge(f, knownIds, items) ==
    IF Len(items) > 0 THEN writeJson(SliceLast(knownIds, KeepIds)) ELSE f

\* part_001: what the non-bootstrap branch leaves in the file
MergeAndPersist(f, knownIds, items) ==
    IF Len(items) > 0
    THEN writeJson(SliceLast(AddIdsOf(knownIds, items), KeepIds))
    ELSE f

checkIfHasNewItem(items, f, boot) ==
    LET existedBefore == fileExists(f)
        prev == readJsonArray(f)
    IN  IF ~prev.isArray
        THEN \* prev.map is not a function: TypeError
             [raised |-> TRUE, newItems |-> <<>>, file |-> f, push |-> FALSE, boot |-> FALSE,
              migrated |-> <<>>, known |-> <<>>]
        ELSE LET migrated == Migrate(prev.arr)
                 knownIds == KnownIdSet(migrated)
                 new == NewItemsOf(items, knownIds)
             IN  IF BootstrapCond(existedBefore, knownIds, boot)
                 THEN [raised |-> FALSE, newItems |-> <<>>,
                       file |-> writeJson(SliceLast(AddIdsOf(<<>>, items), KeepIds)),
                       push |-> FALSE, boot |-> TRUE,
                       migrated |-> migrated, known |-> knownIds]
                 ELSE [raised |-> FALSE, newItems |-> new,
                       file |-> MergeAndPersist(f, knownIds, items),
                       push |-> Len(new) > 0, boot |-> FALSE,
                       migrated |-> migrated, known |-> knownIds]

\* scraper.js: the loop that adds each new id to knownIds as it goes
RECURSIVE SingleLoop(_, _, _)
SingleLoop(items, knownIds, new) ==
    IF items = <<>> THEN [knownIds |-> knownIds, newItems |-> new]
    ELSE LET it == Head(items)
             id == IdOf(it.link)
         IN  IF id # <<>> /\ ~InSeq(id, knownIds)
             THEN SingleLoop(Tail(items), Append(knownIds, id), Append(new, it))
             ELSE SingleLoop(Tail(items), knownIds, new)

\* scraper.js: checkIfHasNewItem(items, topic)
checkIfHasNewItemSingle(items, f) ==
    LET prev == readJsonArray(f)
    IN  IF ~prev.isArray
        THEN [raised |-> TRUE, newItems |-> <<>>, file |-> f, push |-> FALSE, boot |-> FALSE,
              migrated |-> <<>>, known |-> <<>>]
        ELSE LET migrated == Migrate(prev.arr)
                 knownIds == KnownIdSet(migrated)
                 r == SingleLoop(items, knownIds, <<>>)
             IN  [raised |-> FALSE, newItems |-> r.newItems,
                  file |-> IF Len(r.newItems) > 0
                           THEN writeJson(SliceLast(r.knownIds, KeepIds))
                           ELSE f,
                  push |-> Len(r.newItems) > 0, boot |-> FALSE,
                  migrated |-> migrated, known |-> knownIds]

Classify(items, f, boot, v) ==
    IF v = "single" THEN checkIfHasNewItemSingle(items, f)
    ELSE checkIfHasNewItem(items, f, boot)

(***************************************************************************)
(* Inputs: links, entries, entry lists, initial file contents              *)
(***************************************************************************)

Entry(l) == [image |-> <<"img">>, link |-> l]

IdA == <<"a1">>
IdB == <<"b2">>
IdC == <<"c3">>
IdD == <<"d4">>
AllIds == {IdA, IdB, IdC, IdD}

\* entry lists longer than MaxShort, with more distinct ids than KeepIds
LongLists ==
    { <<Entry(LA), Entry(LB), Entry(LC), Entry(LD)>>,
      <<Entry(LD), Entry(LA), Entry(LN), Entry(LB), Entry(LC)>> }

\* short lists over a few links, some lists chosen for their shape, the long lists
ShortLinks == {LA, LB, LN}
ShapedLists ==
    { <<Entry(LC)>>, <<Entry(LD)>>, <<Entry(LA), Entry(LD)>>, <<Entry(LC), Entry(LA)>>,
      <<Entry(LAq), Entry(LA)>>, <<Entry(LAq), Entry(LD), Entry(LAq)>> }
EntryLists ==
    SeqsUpTo({Entry(l) : l \in ShortLinks}, MaxShort) \cup ShapedLists \cup LongLists

\* contents the per-topic file can have when a run starts
LegacyFiles ==
    { ArrayFile(<<Str(LA), Str(LN), Str(LB)>>),
      ArrayFile(<<Str(LAq), Str(LA)>>) }
InitFiles ==
    { MissingFile, EmptyTextFile, CorruptFile, NonArrayFile, ArrayFile(<<>>),
      ArrayFile(<<Str(IdA), Str(IdB), Str(IdC)>>),
      ArrayFile(<<JsonNull, Str(<<>>), Num("0")>>),
      ArrayFile(<<Num("7"), Str(<<"note">>), Str(LC)>>) } \cup LegacyFiles

Configs == {<<"multi", TRUE>>, <<"multi", FALSE>>, <<"single", FALSE>>}

NoCall ==
    [n |-> 0, items |-> <<>>, pre |-> MissingFile, post |-> MissingFile,
     raised |-> FALSE, newItems |-> <<>>, boot |-> FALSE, migrated |-> <<>>,
     known |-> <<>>, pushPre |-> FALSE, pushPost |-> FALSE, prevBoot |-> FALSE,
     same |-> FALSE, run |-> 0]

\* the record of one checkIfHasNewItem call
CallRecord(items, r) ==
    [n |-> IF lastCall.n < 2 THEN lastCall.n + 1 ELSE 2,
     items |-> items, pre |-> file, post |-> r.file,
     raised |-> r.raised, newItems |-> r.newItems, boot |-> r.boot,
     migrated |-> r.migrated, known |-> r.known,
     pushPre |-> pushFlag, pushPost |-> pushFlag \/ r.push,
     prevBoot |-> lastCall.n > 0 /\ lastCall.boot,
     same |-> lastCall.n > 0 /\ lastCall.items = items,
     run |-> run]

(***************************************************************************)
(* The store alone: checkIfHasNewItem called again and again               *)
(***************************************************************************)
NoBatch == [lines |-> <<>>, headerLen |-> 0, maxChars |-> 0, called |-> FALSE, chunks |-> <<>>]
BatchIdle == batch = NoBatch
SendIdle == sendPc = "off" /\ attempt = 0 /\ sleeps = <<>> /\ sendLog = <<>> /\ sendErr = 0
ProgIdle ==
    /\ disabled = <<>> /\ tpc = <<>> /\ prog = "off" /\ exitCode = 0 /\ tpcAtSettle = <<>>
    /\ topicKey = <<>> /\ store = <<>> /\ collected = <<>> /\ written = <<>> /\ ioLog = <<>>
NoError == err = "none" /\ thrown = "none" /\ noticeCalls = 0

PipelineIdle ==
    /\ pc = "off" /\ run = 0
    /\ p = 1 /\ pageUrl = <<>> /\ usedDetectedNext = FALSE
    /\ aggregated = <<>> /\ seenIds = <<>> /\ fetchedRaw = <<>> /\ fetchLog = <<>>
    /\ traceCollect = FALSE
    /\ newItems = <<>> /\ groups = <<>> /\ chunkIdx = 0
    /\ sent = <<>>
    /\ reported = [id \in AllIds |-> 0] /\ observed = {} /\ owed = {}

InitClassify ==
    /\ file \in InitFiles
    /\ pushFlag = FALSE
    /\ \E c \in Configs : ver = c[1] /\ bootstrapIfEmpty = c[2]
    /\ lastCall = NoCall
    /\ PipelineIdle
    /\ NoError /\ BatchIdle /\ SendIdle /\ ProgIdle

ClassifyCall(items) ==
    LET r == Classify(items, file, bootstrapIfEmpty, ver)
    IN  /\ file' = r.file
        /\ pushFlag' = (pushFlag \/ r.push)
        /\ lastCall' = CallRecord(items, r)
        /\ UNCHANGED <<bootstrapIfEmpty, ver, pc, run, collectVars, notifyVars, sent, histVars>>
        /\ UNCHANGED <<errVars, unitVars>>

NextClassify == \E items \in EntryLists : ClassifyCall(items)

SpecClassify == InitClassify /\ [][NextClassify]_vars

(***************************************************************************)
(* Collecting the pages of a topic                                         *)
(***************************************************************************)
BaseUrl == <<"https://", "h", "/", "feed">>
NextUrl == <<"https://", "h", "/", "feed", "?", "page=next">>

\* buildPageUrl(baseUrl, page), for an absolute base URL without a page parameter
buildPageUrl(baseUrl, page) ==
    IF page <= 1 THEN baseUrl
    ELSE baseUrl \o <<"?", "page=" \o ToString(page)>>

\* scrapeItemsFromSinglePage: the dedupe by id within one page
RECURSIVE UniqueItems(_, _)
UniqueItems(items, seenRun) ==
    IF items = <<>> THEN <<>>
    ELSE LET it == Head(items)
             id == IdOf(it.link)
         IN  IF id = <<>> \/ InSeq(id, seenRun)
             THEN UniqueItems(Tail(items), seenRun)
             ELSE <<it>> \o UniqueItems(Tail(items), Append(seenRun, id))

\* mutant of AggregatePage: seenIds is not consulted
RECURSIVE AggregatePageNoSeen(_, _, _)
AggregatePageNoSeen(agg, seen, items) ==
    IF items = <<>> THEN [aggregated |-> agg, seenIds |-> seen]
    ELSE LET it == Head(items)
             id == IdOf(it.link)
         IN  IF id = <<>>
             THEN AggregatePageNoSeen(agg, seen, Tail(items))
             ELSE AggregatePageNoSeen(Append(agg, it), Append(seen, id), Tail(items))

\* collectItemsAcrossPages: the run-level dedupe of one page's items
RECURSIVE AggregatePage(_, _, _)
AggregatePage(agg, seen, items) ==
    IF items = <<>> THEN [aggregated |-> agg, seenIds |-> seen]
    ELSE LET it == Head(items)
             id == IdOf(it.link)
         IN  IF id = <<>> \/ InSeq(id, seen)
             THEN AggregatePage(agg, seen, Tail(items))
             ELSE AggregatePage(Append(agg, it), Append(seen, id), Tail(items))

(***************************************************************************)
(* Batching the notification                                               *)
(***************************************************************************)
\* A line of a message: the text it was made from, its length, and whether it
\* was cut (the cut text is the first len - 1 characters plus the ellipsis).
Line(text) == [src |-> text, len |-> StrLen(text), cut |-> FALSE]

\* the length of s.slice(0, k) for a string of n characters
SliceLen(n, k) ==
    IF k >= 0 THEN (IF k < n THEN k ELSE n)
    ELSE (IF n + k > 0 THEN n + k ELSE 0)

\* line.slice(0, maxChars - baseHeader.length - reserve - 10) + ellipsis
Truncated(line, headerLen, maxChars) ==
    [src |-> line.src,
     len |-> SliceLen(line.len, maxChars - headerLen - Reserve - TruncSlack) + 1,
     cut |-> TRUE]

\* mutant of ChunkLoop: without the final "if (curr.length) chunks.push(curr)"
RECURSIVE ChunkLoopNoFlush(_, _, _, _, _, _)
ChunkLoopNoFlush(lines, headerLen, maxChars, chunks, curr, currLen) ==
    IF lines = <<>> THEN chunks
    ELSE LET line == Head(lines)
             lineLen == line.len + 1
         IN  IF currLen + lineLen > maxChars - Reserve
             THEN IF Len(curr) = 0
                  THEN ChunkLoopNoFlush(Tail(lines), headerLen, maxChars,
                                 Append(chunks, <<Truncated(line, headerLen, maxChars)>>),
                                 <<>>, headerLen + 2)
                  ELSE ChunkLoopNoFlush(Tail(lines), headerLen, maxChars,
                                 Append(chunks, curr), <<line>>, headerLen + 2 + lineLen)
             ELSE ChunkLoopNoFlush(Tail(lines), headerLen, maxChars,
                            chunks, Append(curr, line), currLen + lineLen)

\* chunkLinesByChars: the loop, with chunks, curr and currLen as its state
RECURSIVE ChunkLoop(_, _, _, _, _, _)
ChunkLoop(lines, headerLen, maxChars, chunks, curr, currLen) ==
    IF lines = <<>> THEN (IF Len(curr) > 0 THEN Append(chunks, curr) ELSE chunks)
    ELSE LET line == Head(lines)
             lineLen == line.len + 1
         IN  IF currLen + lineLen > maxChars - Reserve
             THEN IF Len(curr) = 0
                  THEN ChunkLoop(Tail(lines), headerLen, maxChars,
                                 Append(chunks, <<Truncated(line, headerLen, maxChars)>>),
                                 <<>>, headerLen + 2)
                  ELSE ChunkLoop(Tail(lines), headerLen, maxChars,
                                 Append(chunks, curr), <<line>>, headerLen + 2 + lineLen)
             ELSE ChunkLoop(Tail(lines), headerLen, maxChars,
                            chunks, Append(curr, line), currLen + lineLen)

chunkLinesByChars(lines, headerLen, maxChars) ==
    ChunkLoop(lines, headerLen, maxChars, <<>>, <<>>, headerLen + 2)

\* notifyNewItems: the bullet (2 characters) and the shortened link
LinesOf(items) == [i \in 1..Len(items) |-> Line(<<"* ">> \o shortenLink(items[i].link))]

\* notifyNewItems: the header; "NW" stands for the 2 UTF-16 units of its emoji
BaseHeader(n) == <<"NW", " New items found (", ToString(n), ")">>

\* notifyNewItems: the groups it sends, one message each
GroupsOf(items) == chunkLinesByChars(LinesOf(items), StrLen(BaseHeader(Len(items))), MAX_CHARS)

\* the resolvable EntryIds of an entry list
IdsOfList(items) == {IdOf(items[i].link) : i \in 1..Len(items)} \ {<<>>}

(***************************************************************************)
(* The pipeline of one topic: scrape(), run after run                      *)
(***************************************************************************)
\* the raw items one fetched page can hold: duplicates of an id inside a page,
\* links without an id, ids shared between pages
RawLists ==
    { <<>>, <<Entry(LN)>>, <<Entry(LA)>>, <<Entry(LAq), Entry(LA)>>, <<Entry(LB), Entry(LN)>>,
      <<Entry(LC), Entry(LD), Entry(LB)>> }
NextHints == {<<>>, NextUrl}

\* how one safeSend call ends: delivered, or it raises (429 until the retries
\* ran out, or another error)
SendOutcomes == {"ok", "raise"}

PipelineFiles ==
    { MissingFile, NonArrayFile, ArrayFile(<<Str(IdC), Str(IdD), Str(IdA)>>) }

StartOfRun ==
    /\ pc = "announce"
    /\ p = 1 /\ pageUrl = BaseUrl /\ usedDetectedNext = FALSE
    /\ aggregated = <<>> /\ seenIds = <<>> /\ fetchedRaw = <<>> /\ fetchLog = <<>>
    /\ newItems = <<>> /\ groups = <<>> /\ chunkIdx = 0
    /\ sent = <<>>

Init ==
    /\ file \in PipelineFiles
    /\ pushFlag = FALSE
    /\ ver = "multi"
    /\ bootstrapIfEmpty \in BOOLEAN
    /\ lastCall = NoCall
    /\ run = 1
    /\ StartOfRun
    /\ traceCollect = FALSE
    /\ reported = [id \in AllIds |-> 0] /\ observed = {} /\ owed = {}
    /\ NoError /\ BatchIdle /\ SendIdle /\ ProgIdle

Message(kind, i) == [kind |-> kind, i |-> i]

\* scrape: the start announcement
Announce(o) ==
    /\ pc = "announce"
    /\ IF o = "ok"
       THEN pc' = "collect" /\ sent' = Append(sent, Message("start", 0)) /\ UNCHANGED err
       ELSE pc' = "catch" /\ err' = "announce" /\ UNCHANGED sent
    /\ UNCHANGED <<storeVars, run, collectVars, notifyVars, histVars>>
    /\ UNCHANGED <<thrown, noticeCalls, unitVars>>

\* mutant of TargetUrl: the detected next link is never followed
TargetUrlByParameter == buildPageUrl(BaseUrl, p)

\* the URL the loop fetches in this iteration
TargetUrl == IF usedDetectedNext THEN pageUrl ELSE buildPageUrl(BaseUrl, p)

\* mutant of FetchFails: the error of the page leaves collectItemsAcrossPages
FetchFailsAborts ==
    /\ pc = "collect" /\ p <= MaxPages
    /\ fetchLog' = IF traceCollect
                   THEN Append(fetchLog, [url |-> TargetUrl, ok |-> FALSE, next |-> <<>>])
                   ELSE fetchLog
    /\ pc' = "catch"
    /\ UNCHANGED <<storeVars, run, p, pageUrl, usedDetectedNext, aggregated, seenIds,
                   fetchedRaw, traceCollect, notifyVars, sent, histVars>>
    /\ UNCHANGED <<errVars, unitVars>>

\* mutant of FetchFails: the failed page is tried again with the same index
FetchFailsSamePage ==
    /\ pc = "collect" /\ p <= MaxPages
    /\ fetchLog' = IF traceCollect
                   THEN Append(fetchLog, [url |-> TargetUrl, ok |-> FALSE, next |-> <<>>])
                   ELSE fetchLog
    /\ UNCHANGED <<storeVars, pc, run, p, pageUrl, usedDetectedNext, aggregated, seenIds,
                   fetchedRaw, traceCollect, notifyVars, sent, histVars>>
    /\ UNCHANGED <<errVars, unitVars>>

\* collectItemsAcrossPages: an iteration whose page fails (blocked, fetch error)
FetchFails ==
    /\ pc = "collect" /\ p <= MaxPages
    /\ fetchLog' = IF traceCollect
                   THEN Append(fetchLog, [url |-> TargetUrl, ok |-> FALSE, next |-> <<>>])
                   ELSE fetchLog
    /\ p' = p + 1
    /\ pc' = IF p + 1 > MaxPages THEN "classify" ELSE "collect"
    /\ UNCHANGED <<storeVars, run, pageUrl, usedDetectedNext, aggregated, seenIds,
                   fetchedRaw, traceCollect, notifyVars, sent, histVars>>
    /\ UNCHANGED <<errVars, unitVars>>

\* mutant of FetchOk: without the break of follow-next mode
FetchOkNoBreak(raw, nextUrl) ==
    /\ pc = "collect" /\ p <= MaxPages
    /\ LET a == AggregatePage(aggregated, seenIds, UniqueItems(raw, <<>>))
           follow == nextUrl # <<>> /\ p < MaxPages
       IN  /\ aggregated' = a.aggregated
           /\ seenIds' = a.seenIds
           /\ pageUrl' = IF follow THEN nextUrl ELSE pageUrl
           /\ usedDetectedNext' = (usedDetectedNext \/ follow)
           /\ p' = p + 1
           /\ pc' = IF p + 1 > MaxPages THEN "classify" ELSE "collect"
    /\ fetchedRaw' = IF traceCollect THEN fetchedRaw \o raw ELSE fetchedRaw
    /\ fetchLog' = IF traceCollect
                   THEN Append(fetchLog, [url |-> TargetUrl, ok |-> TRUE, next |-> nextUrl])
                   ELSE fetchLog
    /\ UNCHANGED <<storeVars, run, traceCollect, notifyVars, sent, histVars>>
    /\ UNCHANGED <<errVars, unitVars>>

\* collectItemsAcrossPages: an iteration whose page yields raw items and a next link or none
FetchOk(raw, nextUrl) ==
    /\ pc = "collect" /\ p <= MaxPages
    /\ LET a == AggregatePage(aggregated, seenIds, UniqueItems(raw, <<>>))
           follow == nextUrl # <<>> /\ p < MaxPages
           stop == ~follow /\ usedDetectedNext /\ nextUrl = <<>>
       IN  /\ aggregated' = a.aggregated
           /\ seenIds' = a.seenIds
           /\ pageUrl' = IF follow THEN nextUrl ELSE pageUrl
           /\ usedDetectedNext' = (usedDetectedNext \/ follow)
           /\ p' = IF stop THEN p ELSE p + 1
           /\ pc' = IF stop \/ p + 1 > MaxPages THEN "classify" ELSE "collect"
    /\ fetchedRaw' = IF traceCollect THEN fetchedRaw \o raw ELSE fetchedRaw
    /\ fetchLog' = IF traceCollect
                   THEN Append(fetchLog, [url |-> TargetUrl, ok |-> TRUE, next |-> nextUrl])
                   ELSE fetchLog
    /\ UNCHANGED <<storeVars, run, traceCollect, notifyVars, sent, histVars>>
    /\ UNCHANGED <<errVars, unitVars>>

Bump(n) == IF n < 2 THEN n + 1 ELSE 2

\* scrape: checkIfHasNewItem on the collected items, then the branch on its result
ClassifyStep ==
    /\ pc = "classify"
    /\ LET r == Classify(aggregated, file, bootstrapIfEmpty, ver)
           newIds == IdsOfList(r.newItems)
       IN  /\ file' = r.file
           /\ pushFlag' = (pushFlag \/ r.push)
           /\ lastCall' = CallRecord(aggregated, r)
           /\ newItems' = r.newItems
           /\ groups' = IF Len(r.newItems) > 0 THEN GroupsOf(r.newItems) ELSE <<>>
           /\ pc' = IF r.raised THEN "catch"
                    ELSE IF Len(r.newItems) > 0 THEN "notify" ELSE "noNew"
           /\ err' = IF r.raised THEN "classify" ELSE err
           /\ reported' = [id \in AllIds |->
                              IF id \in newIds THEN Bump(reported[id]) ELSE reported[id]]
           /\ owed' = owed \cup newIds
    /\ observed' = observed \cup IdsOfList(aggregated)
    /\ chunkIdx' = 0
    /\ UNCHANGED <<bootstrapIfEmpty, ver, run, collectVars, sent>>
    /\ UNCHANGED <<thrown, noticeCalls, unitVars>>

\* the entries whose lines are in group i (1-based)
RECURSIVE LinesBefore(_, _)
LinesBefore(gs, i) == IF i <= 1 THEN 0 ELSE Len(gs[i - 1]) + LinesBefore(gs, i - 1)
ChunkEntries(items, gs, i) ==
    SubSeq(items, LinesBefore(gs, i) + 1, LinesBefore(gs, i) + Len(gs[i]))

\* mutant of SendChunk: a chunk whose send raised is skipped
SendChunkSkipsFailed(o) ==
    /\ pc = "notify" /\ chunkIdx < Len(groups)
    /\ chunkIdx' = chunkIdx + 1
    /\ pc' = IF chunkIdx + 1 = Len(groups) THEN "done" ELSE "notify"
    /\ IF o = "ok"
       THEN /\ sent' = Append(sent, Message("chunk", chunkIdx + 1))
            /\ owed' = owed \ IdsOfList(ChunkEntries(newItems, groups, chunkIdx + 1))
       ELSE UNCHANGED <<sent, owed>>
    /\ UNCHANGED <<storeVars, run, collectVars, newItems, groups, reported, observed>>
    /\ UNCHANGED <<errVars, unitVars>>

\* notifyNewItems: one iteration of its loop, the safeSend of group chunkIdx
SendChunk(o) ==
    /\ pc = "notify" /\ chunkIdx < Len(groups)
    /\ IF o = "ok"
       THEN /\ sent' = Append(sent, Message("chunk", chunkIdx + 1))
            /\ chunkIdx' = chunkIdx + 1
            /\ pc' = IF chunkIdx + 1 = Len(groups) THEN "done" ELSE "notify"
            /\ owed' = owed \ IdsOfList(ChunkEntries(newItems, groups, chunkIdx + 1))
            /\ UNCHANGED err
       ELSE /\ pc' = "catch" /\ err' = "chunk"
            /\ UNCHANGED <<sent, chunkIdx, owed>>
    /\ UNCHANGED <<storeVars, run, collectVars, newItems, groups, reported, observed>>
    /\ UNCHANGED <<thrown, noticeCalls, unitVars>>

\* scrape: the "No new items were added" message
SendNoNew(o) ==
    /\ pc = "noNew"
    /\ IF o = "ok"
       THEN pc' = "done" /\ sent' = Append(sent, Message("noNew", 0)) /\ UNCHANGED err
       ELSE pc' = "catch" /\ err' = "noNew" /\ UNCHANGED sent
    /\ UNCHANGED <<storeVars, run, collectVars, notifyVars, histVars>>
    /\ UNCHANGED <<thrown, noticeCalls, unitVars>>

\* mutant of FailureNotice: a failure of the notice replaces the error caught
FailureNoticeSecondary(o) ==
    /\ pc = "catch"
    /\ sent' = IF o = "ok" THEN Append(sent, Message("failure", 0)) ELSE sent
    /\ noticeCalls' = noticeCalls + 1
    /\ thrown' = IF o = "ok" THEN err ELSE "notice"
    /\ pc' = "failed"
    /\ UNCHANGED <<storeVars, run, collectVars, notifyVars, histVars, err, unitVars>>

\* scrape: the catch block; the failure notice is best effort, then the error is rethrown
FailureNotice(o) ==
    /\ pc = "catch"
    /\ sent' = IF o = "ok" THEN Append(sent, Message("failure", 0)) ELSE sent
    /\ noticeCalls' = noticeCalls + 1
    /\ thrown' = err
    /\ pc' = "failed"
    /\ UNCHANGED <<storeVars, run, collectVars, notifyVars, histVars, err, unitVars>>

\* the process is started again (the next poll)
NextRun ==
    /\ pc \in {"done", "failed"} /\ run < MaxRuns
    /\ run' = run + 1
    /\ pc' = "announce"
    /\ p' = 1 /\ pageUrl' = BaseUrl /\ usedDetectedNext' = FALSE
    /\ aggregated' = <<>> /\ seenIds' = <<>>
    /\ newItems' = <<>> /\ groups' = <<>> /\ chunkIdx' = 0
    /\ sent' = <<>>
    /\ lastCall' = NoCall
    /\ err' = "none" /\ thrown' = "none" /\ noticeCalls' = 0
    /\ UNCHANGED <<file, pushFlag, bootstrapIfEmpty, ver, fetchedRaw, fetchLog, traceCollect>>
    /\ UNCHANGED <<histVars, unitVars>>

Next ==
    \/ \E o \in SendOutcomes : Announce(o)
    \/ FetchFails
    \/ \E raw \in RawLists, nextUrl \in NextHints : FetchOk(raw, nextUrl)
    \/ ClassifyStep
    \/ \E o \in SendOutcomes : SendChunk(o)
    \/ \E o \in SendOutcomes : SendNoNew(o)
    \/ \E o \in SendOutcomes : FailureNotice(o)
    \/ NextRun

Spec == Init /\ [][Next]_vars

(***************************************************************************)
(* The single-page pipeline of scraper.js: scrape() fetches one page with  *)
(* scrapeItemsAndExtractImgUrls, whose errors reach the catch of scrape()  *)
(***************************************************************************)
\* why scrapeItemsAndExtractImgUrls throws: getYad2Response failed or gave
\* nothing, the page is the captcha page, or it has no feed image
PageFailures == {"fetch", "blocked", "noFeed"}

\* the fetch of a run, with the persisted state at that time
PageEvent(ok, cause) ==
    [run |-> run, ok |-> ok, cause |-> cause, file |-> file, pushFlag |-> pushFlag]

InitSingle ==
    /\ file \in PipelineFiles
    /\ pushFlag = FALSE
    /\ ver = "single"
    /\ bootstrapIfEmpty = FALSE
    /\ lastCall = NoCall
    /\ run = 1
    /\ StartOfRun
    /\ traceCollect = TRUE
    /\ reported = [id \in AllIds |-> 0] /\ observed = {} /\ owed = {}
    /\ NoError /\ BatchIdle /\ SendIdle /\ ProgIdle

\* mutant of SinglePageFails: the failed page counts as a page without
\* entries, as in collectItemsAcrossPages
SinglePageFailsSkipped(cause) ==
    /\ pc = "collect" /\ ver = "single"
    /\ fetchLog' = Append(fetchLog, PageEvent(FALSE, cause))
    /\ pc' = "classify"
    /\ UNCHANGED <<storeVars, run, p, pageUrl, usedDetectedNext, aggregated, seenIds,
                   fetchedRaw, traceCollect, notifyVars, sent, histVars>>
    /\ UNCHANGED <<errVars, unitVars>>

\* scrapeItemsAndExtractImgUrls throws, and scrape() catches it
SinglePageFails(cause) ==
    /\ pc = "collect" /\ ver = "single"
    /\ fetchLog' = Append(fetchLog, PageEvent(FALSE, cause))
    /\ pc' = "catch" /\ err' = cause
    /\ UNCHANGED <<storeVars, run, p, pageUrl, usedDetectedNext, aggregated, seenIds,
                   fetchedRaw, traceCollect, notifyVars, sent, histVars>>
    /\ UNCHANGED <<thrown, noticeCalls, unitVars>>

\* scrapeItemsAndExtractImgUrls returns the entries of the page, one per id
SinglePageOk(raw) ==
    /\ pc = "collect" /\ ver = "single"
    /\ fetchLog' = Append(fetchLog, PageEvent(TRUE, "none"))
    /\ aggregated' = UniqueItems(raw, <<>>)
    /\ pc' = "classify"
    /\ UNCHANGED <<storeVars, run, p, pageUrl, usedDetectedNext, seenIds,
                   fetchedRaw, traceCollect, notifyVars, sent, histVars>>
    /\ UNCHANGED <<errVars, unitVars>>

NextSingle ==
    \/ \E o \in SendOutcomes : Announce(o)
    \/ \E cause \in PageFailures : SinglePageFails(cause)
    \/ \E raw \in RawLists : SinglePageOk(raw)
    \/ ClassifyStep
    \/ \E o \in SendOutcomes : SendChunk(o)
    \/ \E o \in SendOutcomes : SendNoNew(o)
    \/ \E o \in SendOutcomes : FailureNotice(o)
    \/ NextRun

SpecSingle == InitSingle /\ [][NextSingle]_vars

(***************************************************************************)
(* collectItemsAcrossPages alone, with the history of what it fetched      *)
(***************************************************************************)
InitCollect ==
    /\ file = MissingFile
    /\ pushFlag = FALSE
    /\ ver = "multi"
    /\ bootstrapIfEmpty = TRUE
    /\ lastCall = NoCall
    /\ run = 1
    /\ pc = "collect"
    /\ p = 1 /\ pageUrl = BaseUrl /\ usedDetectedNext = FALSE
    /\ aggregated = <<>> /\ seenIds = <<>> /\ fetchedRaw = <<>> /\ fetchLog = <<>>
    /\ traceCollect = TRUE
    /\ newItems = <<>> /\ groups = <<>> /\ chunkIdx = 0
    /\ sent = <<>>
    /\ reported = [id \in AllIds |-> 0] /\ observed = {} /\ owed = {}
    /\ NoError /\ BatchIdle /\ SendIdle /\ ProgIdle

\* the next links a page can show when collect is studied alone: none, or one of two
NextUrl2 == <<"https://", "h", "/", "feed", "?", "page=after">>
NextHintsCollect == NextHints \cup {NextUrl2}

NextCollect ==
    \/ FetchFails
    \/ \E raw \in RawLists, nextUrl \in NextHintsCollect : FetchOk(raw, nextUrl)

SpecCollect == InitCollect /\ [][NextCollect]_vars

\* every call of the fetch/extract collaborator returns or raises in the end
SpecCollectFair == SpecCollect /\ WF_vars(NextCollect)

(***************************************************************************)
(* chunkLinesByChars alone, on lines of any lengths                        *)
(***************************************************************************)
StoreIdle ==
    /\ file = MissingFile /\ pushFlag = FALSE /\ ver = "multi" /\ bootstrapIfEmpty = TRUE
    /\ lastCall = NoCall

\* lengths of a line: empty, short, long enough to fill a chunk alone, longer
\* than any budget
LineLens == {0, 5, 10, 60, 200}
\* lengths of baseHeader; with the longest one the truncation's slice end is negative
HeaderLens == {10, 20, 70}
MaxCharsChoices == {60, MAX_CHARS}

\* the i-th line of the input, of n characters
BatchLine(i, n) == [src |-> i, len |-> n, cut |-> FALSE]
LineLists ==
    UNION { { [i \in 1..n |-> BatchLine(i, f[i])] : f \in [1..n -> LineLens] } : n \in 0..MaxLines }

InitBatch ==
    /\ StoreIdle /\ PipelineIdle /\ NoError /\ SendIdle /\ ProgIdle
    /\ \E ls \in LineLists, h \in HeaderLens, m \in MaxCharsChoices :
           batch = [lines |-> ls, headerLen |-> h, maxChars |-> m,
                    called |-> FALSE, chunks |-> <<>>]

\* chunkLinesByChars(lines, baseHeader, maxChars)
BatchCall ==
    /\ ~batch.called
    /\ batch' = [batch EXCEPT !.called = TRUE,
                              !.chunks = chunkLinesByChars(batch.lines, batch.headerLen,
                                                           batch.maxChars)]
    /\ UNCHANGED <<pipelineVars, sendVars, progVars>>

NextBatch == BatchCall

SpecBatch == InitBatch /\ [][NextBatch]_vars

\* the number of decimal digits of n
RECURSIVE Digits(_)
Digits(n) == IF n < 10 THEN 1 ELSE 1 + Digits(n \div 10)

\* notifyNewItems: the length of partTag, " (part i/N)", for group i of n
PartTagLen(i, n) == IF n > 1 THEN 9 + Digits(i) + Digits(n) ELSE 0

\* the length of chunk.join("\n")
RECURSIVE SumLens(_)
SumLens(chunk) == IF chunk = <<>> THEN 0 ELSE Head(chunk).len + SumLens(Tail(chunk))
JoinedLen(chunk) == IF chunk = <<>> THEN 0 ELSE SumLens(chunk) + Len(chunk) - 1

\* notifyNewItems: the length of the text of group i (1-based)
RenderedLen(chunks, i, headerLen) ==
    headerLen + PartTagLen(i, Len(chunks)) + 2 + JoinedLen(chunks[i])

\* the lines of the chunks, one after the other
RECURSIVE Flatten(_)
Flatten(chunks) == IF chunks = <<>> THEN <<>> ELSE Head(chunks) \o Flatten(Tail(chunks))

(***************************************************************************)
(* safeSend alone, against every sequence of answers of the transport      *)
(***************************************************************************)
\* An answer of telenode.sendTextMessage. status 0: the error has no status;
\* param: e.response.data.parameters.retry_after, a number; header:
\* e.response.headers['retry-after'], a non-empty text of digits, given by the
\* number it denotes. <<>> is undefined, <<n>> the value n.
Delivered == [kind |-> "ok", status |-> 200, param |-> <<>>, header |-> <<>>]
Failure(status, param, header) ==
    [kind |-> "err", status |-> status, param |-> param, header |-> header]

\* (retry_after, retry-after) of the 429 answers
Hints == { <<<<>>, <<>>>>, <<<<2>>, <<>>>>, <<<<0>>, <<>>>>, <<<<>>, <<3>>>>, <<<<2>>, <<3>>>> }
Answers ==
    {Delivered, Failure(500, <<>>, <<>>), Failure(0, <<>>, <<>>)}
    \cup {Failure(TooManyRequests, h[1], h[2]) : h \in Hints}

\* retryAfterParam || retryAfterHeader: a number is falsy when it is 0, a
\* non-empty text never is
ParamOrHeader(resp) ==
    IF resp.param # <<>> /\ resp.param[1] # 0 THEN resp.param ELSE resp.header

\* Number.isFinite(Number(retryAfterParam || retryAfterHeader)): Number(undefined) is NaN
HintIsFinite(resp) == ParamOrHeader(resp) # <<>>

RECURSIVE Pow2(_)
Pow2(n) == IF n = 0 THEN 1 ELSE 2 * Pow2(n - 1)

\* mutant of WaitMs: the fallback does not grow
WaitMsFlat(resp, att) ==
    IF HintIsFinite(resp) THEN ParamOrHeader(resp)[1] * MsPerSec
    ELSE BackoffBase

\* const waitMs = ...
WaitMs(resp, att) ==
    IF HintIsFinite(resp) THEN ParamOrHeader(resp)[1] * MsPerSec
    ELSE BackoffBase * Pow2(att)

\* mutant of ShouldRetry: one retry more than maxRetries
ShouldRetryOnceMore(status, att) == status = TooManyRequests /\ att <= MaxRetries

\* mutant of ShouldRetry: every failure is retried
ShouldRetryAnyFailure(status, att) == att < MaxRetries

\* status === 429 && attempt < maxRetries
ShouldRetry(status, att) == status = TooManyRequests /\ att < MaxRetries

InitSend ==
    /\ StoreIdle /\ PipelineIdle /\ NoError /\ BatchIdle /\ ProgIdle
    /\ sendPc = "try" /\ attempt = 0 /\ sleeps = <<>> /\ sendLog = <<>> /\ sendErr = 0

\* safeSend: one turn of its loop: the transport call, and in the catch block
\* the sleep and the retry, or the throw
SendAttempt(resp) ==
    /\ sendPc = "try"
    /\ sendLog' = Append(sendLog, resp)
    /\ IF resp.kind = "ok"
       THEN sendPc' = "returned" /\ UNCHANGED <<attempt, sleeps, sendErr>>
       ELSE IF ShouldRetry(resp.status, attempt)
            THEN /\ sleeps' = Append(sleeps, WaitMs(resp, attempt))
                 /\ attempt' = attempt + 1
                 /\ UNCHANGED <<sendPc, sendErr>>
            ELSE /\ sendPc' = "raised"
                 /\ sendErr' = Len(sendLog) + 1
                 /\ UNCHANGED <<attempt, sleeps>>
    /\ UNCHANGED <<pipelineVars, batch, progVars>>

NextSend == \E resp \in Answers : SendAttempt(resp)

SpecSend == InitSend /\ [][NextSend]_vars

\* the transport answers every call, and every sleep ends
SpecSendFair == SpecSend /\ WF_vars(NextSend)

(***************************************************************************)
(* program(): the pipelines of all projects, started together              *)
(***************************************************************************)
Topics == 1..MaxTopics
\* the values of project.topic; two projects may have the same
TopicKeys == {"cars", "flats"}
\* what the collect of a project can return, as a set of ids
PolledSets == {{}, {IdA}, {IdB}}

\* positions of a scrape() that is waiting for an I/O step to end
Running == {"announce", "collect", "classify", "notify", "noNew", "catch"}
\* positions of a project whose scrape() promise is settled, or that has none
Completed == {"skipped", "done", "failed"}

InitProgram ==
    /\ StoreIdle /\ PipelineIdle /\ NoError /\ BatchIdle /\ SendIdle
    /\ disabled \in [Topics -> BOOLEAN]
    /\ tpc = [t \in Topics |-> "idle"]
    /\ prog = "init" /\ exitCode = 0 /\ tpcAtSettle = <<>>
    /\ topicKey \in {f \in [Topics -> TopicKeys] : f[1] = "cars"}
    /\ store = [k \in TopicKeys |-> {}]
    /\ collected = [t \in Topics |-> {}]
    /\ written = [k \in TopicKeys |-> {}]
    /\ ioLog = [k \in TopicKeys |-> <<>>]

\* Promise.all over the scrape() promises, and the catch handler of program():
\* the promise of program() is rejected as soon as one scrape() promise is,
\* and fulfilled once all of them are
Settle(newTpc) ==
    IF prog # "pending" THEN UNCHANGED <<prog, exitCode, tpcAtSettle>>
    ELSE IF \E t \in Topics : newTpc[t] = "failed"
         THEN prog' = "rejected" /\ exitCode' = 1 /\ tpcAtSettle' = newTpc
         ELSE IF \A t \in Topics : newTpc[t] \in {"skipped", "done"}
              THEN prog' = "resolved" /\ tpcAtSettle' = newTpc /\ UNCHANGED exitCode
              ELSE UNCHANGED <<prog, exitCode, tpcAtSettle>>

\* program(): filter out the disabled projects and call scrape() for each of
\* the others; each call runs up to its first await, the start announcement
ProgramStart ==
    /\ prog = "init"
    /\ LET newTpc == [t \in Topics |-> IF disabled[t] THEN "skipped" ELSE "announce"]
       IN  /\ tpc' = newTpc
           /\ IF \A t \in Topics : disabled[t]
              THEN prog' = "resolved" /\ tpcAtSettle' = newTpc
              ELSE prog' = "pending" /\ UNCHANGED tpcAtSettle
    /\ UNCHANGED <<pipelineVars, batch, sendVars, disabled, exitCode, topicKey, shareVars>>

\* where scrape() goes when the I/O step it waits for ends with outcome o;
\* hasNew: checkIfHasNewItem returned entries
AfterStep(at, o, hasNew) ==
    CASE at = "announce" -> IF o = "ok" THEN "collect" ELSE "catch"
      [] at = "collect" -> "classify"
      [] at = "classify" -> IF o = "raise" THEN "catch"
                            ELSE IF hasNew THEN "notify" ELSE "noNew"
      [] at = "notify" -> IF o = "ok" THEN "done" ELSE "catch"
      [] at = "noNew" -> IF o = "ok" THEN "done" ELSE "catch"
      [] at = "catch" -> "failed"

\* an access of project t to the per-topic file of its topic key
FileEvent(t, op) == [t |-> t, op |-> op]

\* the entries scrape() holds for project t once the step at position at has
\* ended: the ones collectItemsAcrossPages returned, until checkIfHasNewItem
\* has turned them into its result
Held(t, at, ids) ==
    IF at = "collect" THEN [collected EXCEPT ![t] = ids]
    ELSE IF at = "classify" THEN [collected EXCEPT ![t] = {}]
         ELSE collected

\* mutant of StoreStep: the file, empty at that time, is loaded before the
\* start announcement is awaited, and written at the end from what was loaded
StoreStepStaleLoad(t, at, o, ids) ==
    /\ collected' = Held(t, at, ids)
    /\ LET key == topicKey[t]
       IN  IF at = "announce"
           THEN /\ ioLog' = [ioLog EXCEPT ![key] = Append(@, FileEvent(t, "load"))]
                /\ UNCHANGED <<store, written>>
           ELSE IF at = "classify" /\ o # "raise" /\ collected[t] # {}
                THEN /\ store' = [store EXCEPT ![key] = collected[t]]
                     /\ written' = [written EXCEPT ![key] = @ \cup collected[t]]
                     /\ ioLog' = [ioLog EXCEPT ![key] = Append(@, FileEvent(t, "write"))]
                ELSE UNCHANGED <<store, written, ioLog>>

\* what the step of project t at position at does to the per-topic files:
\* collectItemsAcrossPages returns ids; checkIfHasNewItem, which has no await,
\* loads the file of its topic key and, when it does not raise and the poll
\* is not empty, writes it back with the ids of the poll, all in one step
StoreStep(t, at, o, ids) ==
    /\ collected' = Held(t, at, ids)
    /\ IF at = "classify"
       THEN LET key == topicKey[t]
                merged == store[key] \cup collected[t]
            IN  IF o # "raise" /\ collected[t] # {}
                THEN /\ store' = [store EXCEPT ![key] = merged]
                     /\ written' = [written EXCEPT ![key] = @ \cup merged]
                     /\ ioLog' = [ioLog EXCEPT ![key] = @ \o <<FileEvent(t, "load"),
                                                              FileEvent(t, "write")>>]
                ELSE /\ ioLog' = [ioLog EXCEPT ![key] = Append(@, FileEvent(t, "load"))]
                     /\ UNCHANGED <<store, written>>
       ELSE UNCHANGED <<store, written, ioLog>>

\* checkIfHasNewItem of project t would return entries
HasNew(t) == collected[t] \ store[topicKey[t]] # {}

\* mutant of TopicStep: nothing runs once the promise of program() is rejected
TopicStepUntilRejected(t, o, ids) ==
    /\ tpc[t] \in Running
    /\ prog # "rejected"
    /\ LET newTpc == [tpc EXCEPT ![t] = AfterStep(tpc[t], o, HasNew(t))]
       IN  tpc' = newTpc /\ Settle(newTpc)
    /\ StoreStep(t, tpc[t], o, ids)
    /\ UNCHANGED <<pipelineVars, batch, sendVars, disabled, topicKey>>

\* the I/O step project t waits for ends with outcome o (collect: with the
\* ids it returns), and its scrape() runs to the next one
TopicStep(t, o, ids) ==
    /\ tpc[t] \in Running
    /\ LET newTpc == [tpc EXCEPT ![t] = AfterStep(tpc[t], o, HasNew(t))]
       IN  tpc' = newTpc /\ Settle(newTpc)
    /\ StoreStep(t, tpc[t], o, ids)
    /\ UNCHANGED <<pipelineVars, batch, sendVars, disabled, topicKey>>

TopicRuns(t) == \E o \in SendOutcomes, ids \in PolledSets : TopicStep(t, o, ids)

NextProgram ==
    \/ ProgramStart
    \/ \E t \in Topics : TopicRuns(t)

SpecProgram == InitProgram /\ [][NextProgram]_vars

\* the event loop does not stop while an I/O step of some project can end
SpecProgramFair == SpecProgram /\ WF_vars(NextProgram)

(***************************************************************************)
(* Vocabulary of the claims                                                *)
(***************************************************************************)
\* the strings a persisted array holds
FileStrings(f) == {f.arr[i].s : i \in {j \in 1..Len(f.arr) : f.arr[j].ty = "str"}}

\* what the next load of the file will know
KnownAfterLoad(f) == Range(KnownIdSet(Migrate(readJsonArray(f).arr)))

\* the entries of a list whose id is resolvable and not in S, in the list's order
RECURSIVE UnknownIn(_, _)
UnknownIn(items, S) ==
    IF items = <<>> THEN <<>>
    ELSE LET id == IdOf(Head(items).link)
         IN  IF id # <<>> /\ id \notin S
             THEN <<Head(items)>> \o UnknownIn(Tail(items), S)
             ELSE UnknownIn(Tail(items), S)

\* a persisted array of full links (the legacy schema)
IsLegacyFile(f) ==
    /\ f.kind = "array" /\ Len(f.arr) > 0
    /\ \A i \in 1..Len(f.arr) : f.arr[i].ty = "str" /\ IsHttpUrl(f.arr[i].s)

\* the call wrote the per-topic file
CallWrote(c) ==
    \/ c.boot
    \/ ver = "multi" /\ Len(c.items) > 0
    \/ ver = "single" /\ Len(c.newItems) > 0

(***************************************************************************)
(* C3                                                                      *)
(***************************************************************************)
\* C3 as stated: after a bootstrap poll that persisted the identifier set S, the
\* next classify call returns exactly the entries whose resolvable id is not in
\* S, in input order.
C3_AfterBootstrapAsStated ==
    (lastCall.n >= 2 /\ lastCall.prevBoot /\ ~lastCall.raised)
        => lastCall.newItems = UnknownIn(lastCall.items, FileStrings(lastCall.pre))

\* C3 (amended): after a bootstrap poll that persisted a non-empty identifier
\* set S, the next classify call returns exactly the entries whose resolvable
\* id is not in S, in input order; entries without an id are never returned.
C3_AfterBootstrap ==
    (lastCall.n >= 2 /\ lastCall.prevBoot /\ ~lastCall.raised
     /\ FileStrings(lastCall.pre) # {})
        => lastCall.newItems = UnknownIn(lastCall.items, FileStrings(lastCall.pre))

C3_Witness ==
    /\ lastCall.n >= 2 /\ lastCall.prevBoot /\ ~lastCall.raised
    /\ FileStrings(lastCall.pre) # {}
    /\ Len(lastCall.items) = 3
    /\ Len(lastCall.newItems) = 1
    /\ IdOf(lastCall.newItems[1].link) \notin FileStrings(lastCall.pre)

(***************************************************************************)
(* C4                                                                      *)
(***************************************************************************)
\* C4: classifying the same entry list twice in succession yields no new
\* entries the second time.
C4_Idempotent ==
    (lastCall.n >= 2 /\ lastCall.same /\ ~lastCall.raised) => lastCall.newItems = <<>>

(***************************************************************************)
(* C6                                                                      *)
(***************************************************************************)
\* C6: the persisted array never holds more than N entries, and after each
\* classify the store knows every resolvable id of that poll (when the poll has
\* at most N distinct ids), new or not.
C6_RetentionKeepsLatest ==
    /\ Len(file.arr) <= KeepIds
    /\ (lastCall.n >= 1 /\ ~lastCall.raised
        /\ Cardinality(IdsOfList(lastCall.items)) <= KeepIds)
           => IdsOfList(lastCall.items) \subseteq KnownAfterLoad(file)

(***************************************************************************)
(* C7                                                                      *)
(***************************************************************************)
\* no persisted value is a link whose identifier can be extracted
OnlyIdsOrFailedLinks(f) ==
    \A i \in 1..Len(f.arr) :
        /\ f.arr[i].ty = "str"
        /\ ~(IsHttpUrl(f.arr[i].s) /\ getItemId(f.arr[i].s) # <<>>)

\* every link of the array before is represented in the array after
LinksRepresented(before, after) ==
    \A i \in 1..Len(before.arr) :
        LET link == before.arr[i].s
        IN  IF getItemId(link) # <<>>
            THEN getItemId(link) \in FileStrings(after)
            ELSE link \in FileStrings(after)

C8_MigrateIdempotentLossless ==
    (lastCall.n >= 1 /\ ~lastCall.raised) =>
        /\ Migrate(lastCall.migrated) = lastCall.migrated
        /\ \A i \in 1..Len(lastCall.pre.arr) :
              LET v == lastCall.pre.arr[i]
              IN  (v.ty = "str" /\ v.s # <<>>) =>
                     IF getItemId(v.s) # <<>>
                     THEN InSeq(getItemId(v.s), lastCall.known)
                     ELSE InSeq(v.s, lastCall.known)

C8_Witness ==
    /\ lastCall.n >= 1 /\ ~lastCall.raised
    /\ InSeq(IdA, lastCall.known) /\ InSeq(LN, lastCall.known)
    /\ \E i \in 1..Len(lastCall.pre.arr) : lastCall.pre.arr[i] = Str(LA)
    /\ lastCall.migrated # lastCall.pre.arr

(***************************************************************************)
(* C9                                                                      *)
(***************************************************************************)
\* C9: whatever the file holds that is no array (missing, empty, unparseable,
\* parseable but not an array), classify does not raise and starts from an
\* empty known set.
C9_MalformedFileRecovers ==
    (lastCall.n >= 1 /\ lastCall.pre.kind # "array")
        => ~lastCall.raised /\ lastCall.known = <<>>

(***************************************************************************)
(* C1                                                                      *)
(***************************************************************************)
\* C1: with bootstrap enabled and fewer distinct ids observed than the retention
\* cap, no id is in the newEntries of more than one poll.
C1_NoDuplicateAlerts ==
    (bootstrapIfEmpty /\ Cardinality(observed) < KeepIds)
        => \A id \in AllIds : reported[id] <= 1

C1_Witness ==
    /\ bootstrapIfEmpty /\ Cardinality(observed) < KeepIds
    /\ pc \in {"notify", "noNew"} /\ ~lastCall.boot
    /\ \E id \in IdsOfList(aggregated) :
          reported[id] = 1 /\ id \notin IdsOfList(newItems)

(***************************************************************************)
(* C2                                                                      *)
(***************************************************************************)
\* C2: a classify call with bootstrap enabled that finds no file, or loads an
\* empty identifier set, persists exactly the resolvable ids of the poll (the
\* last N of them beyond the cap), returns no new entries, leaves the marker
\* alone, and no chunk of new items is sent in that run.
C2_BootstrapRule ==
    (lastCall.n >= 1 /\ bootstrapIfEmpty /\ ver = "multi" /\ ~lastCall.raised
     /\ (lastCall.pre.kind = "missing" \/ KnownAfterLoad(lastCall.pre) = {}))
        => /\ lastCall.post.kind = "array"
           /\ FileStrings(lastCall.post) \subseteq IdsOfList(lastCall.items)
           /\ Cardinality(FileStrings(lastCall.post)) = Len(lastCall.post.arr)
           /\ Len(lastCall.post.arr) =
                 (IF Cardinality(IdsOfList(lastCall.items)) < KeepIds
                  THEN Cardinality(IdsOfList(lastCall.items)) ELSE KeepIds)
           /\ file = lastCall.post
           /\ lastCall.newItems = <<>> /\ newItems = <<>>
           /\ lastCall.pushPost = lastCall.pushPre
           /\ \A i \in 1..Len(sent) : sent[i].kind # "chunk"

C2_Witness ==
    /\ lastCall.n >= 1 /\ bootstrapIfEmpty /\ ~lastCall.raised
    /\ lastCall.pre.kind = "array" /\ KnownAfterLoad(lastCall.pre) = {}
    /\ Cardinality(IdsOfList(lastCall.items)) > KeepIds
    /\ Len(file.arr) = KeepIds
    /\ pc = "done"

(***************************************************************************)
(* C5                                                                      *)
(***************************************************************************)
\* C5: an entry reported as new whose chunk was not delivered is reported as
\* new again by the next poll that lists it.
C5_AtLeastOnce ==
    pc \in {"notify", "noNew"}
        => \A id \in IdsOfList(aggregated) : id \in owed => id \in IdsOfList(newItems)

(***************************************************************************)
(* C10                                                                     *)
(***************************************************************************)
\* the position in raw of the first entry with this id
FirstIdx(raw, id) ==
    CHOOSE i \in 1..Len(raw) :
        IdOf(raw[i].link) = id /\ \A j \in 1..(i - 1) : IdOf(raw[j].link) # id

\* C10: the aggregate of a collect run holds each resolvable id of the fetched
\* pages exactly once, as the entry that showed it first, no entry without an
\* id, and in the order of first occurrence.
C10_AggregateDedupe ==
    /\ \A i \in 1..Len(aggregated) : IdOf(aggregated[i].link) # <<>>
    /\ \A i, j \in 1..Len(aggregated) :
          i < j => IdOf(aggregated[i].link) # IdOf(aggregated[j].link)
    /\ IdsOfList(aggregated) = IdsOfList(fetchedRaw)
    /\ \A i \in 1..Len(aggregated) :
          aggregated[i] = fetchedRaw[FirstIdx(fetchedRaw, IdOf(aggregated[i].link))]
    /\ \A i, j \in 1..Len(aggregated) :
          i < j => FirstIdx(fetchedRaw, IdOf(aggregated[i].link))
                     < FirstIdx(fetchedRaw, IdOf(aggregated[j].link))

C10_Witness ==
    /\ pc = "classify"
    /\ Len(fetchLog) = 2 /\ fetchLog[1].ok /\ fetchLog[2].ok
    /\ Len(fetchedRaw) = 5 /\ Len(aggregated) = 3
    /\ \E i \in 1..Len(fetchedRaw) : IdOf(fetchedRaw[i].link) = <<>>

(***************************************************************************)
(* Page failures and the page budget of collectItemsAcrossPages            *)
(***************************************************************************)
\* the number of fetches of this collect that failed
FailedFetches == Cardinality({k \in 1..Len(fetchLog) : ~fetchLog[k].ok})

\* C11: a page failure never leaves collect. The topic is never failed by
\* collecting; after every fetch, failed or not, the loop is at the next page
\* index; the ids of every page fetched successfully are in the aggregate; and
\* collect ends only when the page budget is used up or, after a successful
\* fetch, when a followed next link is missing: never because a page failed.
C11_PageFailureContained ==
    traceCollect =>
        /\ pc \in {"collect", "classify"}
        /\ pc = "collect" => p = Len(fetchLog) + 1
        /\ IdsOfList(fetchedRaw) \subseteq IdsOfList(aggregated)
        /\ pc = "classify" =>
               \/ Len(fetchLog) = MaxPages
               \/ fetchLog[Len(fetchLog)].ok

\* collect has ended with a failed page followed by a page whose entries are
\* in the result
C11_Witness ==
    /\ traceCollect /\ pc = "classify"
    /\ \E k \in 1..Len(fetchLog) - 1 : ~fetchLog[k].ok /\ fetchLog[k + 1].ok
    /\ aggregated # <<>>

\* C12: one collect run calls the fetch/extract collaborator at most
\* pagesToScan times, whatever it answers, and then ends.
C12_PageBudget ==
    /\ [](traceCollect => Len(fetchLog) <= MaxPages)
    /\ <>(pc = "classify")

\* collect has ended having used the whole page budget, with a failed page
C12_Witness ==
    /\ traceCollect /\ pc = "classify"
    /\ Len(fetchLog) = MaxPages /\ FailedFetches > 0

(***************************************************************************)
(* The batcher                                                             *)
(***************************************************************************)
\* C13: for every list of lines, every header and every maxChars, the text
\* rendered from each chunk (header, part tag, blank line, joined lines) is at
\* most maxChars long.
C13_RenderedFits ==
    batch.called =>
        \A i \in 1..Len(batch.chunks) :
            RenderedLen(batch.chunks, i, batch.headerLen) <= batch.maxChars

\* C14: the chunks, one after the other, hold as many lines as the input; the
\* k-th of them is the k-th input line or its truncated form; no chunk is empty.
C14_NothingOmitted ==
    batch.called =>
        LET flat == Flatten(batch.chunks)
        IN  /\ Len(flat) = Len(batch.lines)
            /\ \A k \in 1..Len(flat) :
                   /\ flat[k].src = batch.lines[k].src
                   /\ \/ flat[k] = batch.lines[k]
                      \/ flat[k] = Truncated(batch.lines[k], batch.headerLen, batch.maxChars)
            /\ \A i \in 1..Len(batch.chunks) : batch.chunks[i] # <<>>

\* a call that made a chunk of a truncated line and a chunk of two lines
C14_Witness ==
    /\ batch.called
    /\ \E i, j \in 1..Len(batch.chunks) :
           /\ batch.chunks[i][1].cut
           /\ Len(batch.chunks[j]) = 2

(***************************************************************************)
(* The sender                                                              *)
(***************************************************************************)
SendEnded == sendPc \in {"returned", "raised"}
Is429(resp) == resp.kind = "err" /\ resp.status = TooManyRequests

\* C15: one safeSend call makes at most maxRetries + 1 transport attempts and
\* then ends; when every attempt was answered with 429, it raises the error
\* of the last attempt.
C15_RetryCeiling ==
    /\ [](sendPc # "off" => Len(sendLog) <= MaxRetries + 1)
    /\ [](sendPc = "try" => <>SendEnded)
    /\ []((SendEnded /\ \A k \in 1..Len(sendLog) : Is429(sendLog[k]))
            => /\ sendPc = "raised"
               /\ Len(sendLog) = MaxRetries + 1
               /\ sendErr = Len(sendLog))

\* the call raised after maxRetries + 1 attempts, all answered with 429
C15_Witness ==
    /\ sendPc = "raised" /\ Len(sendLog) = MaxRetries + 1
    /\ \A k \in 1..Len(sendLog) : Is429(sendLog[k])

\* C16: a failure whose status is not 429 is never retried: it is the last
\* attempt, no sleep follows it, and the call raises that error, however many
\* 429 retries came before.
C16_OtherFailureNotRetried ==
    \A k \in 1..Len(sendLog) :
        (sendLog[k].kind = "err" /\ ~Is429(sendLog[k]))
        => /\ k = Len(sendLog)
           /\ sendPc = "raised"
           /\ sendErr = k
           /\ Len(sleeps) = k - 1

\* a failure without status raised after two 429 retries
C16_Witness ==
    /\ sendPc = "raised" /\ Len(sendLog) = 3
    /\ Is429(sendLog[1]) /\ Is429(sendLog[2])
    /\ sendLog[3].kind = "err" /\ sendLog[3].status = 0

\* the wait hint of a 429 answer: the retry_after parameter, else the header
HintOf(resp) == IF resp.param # <<>> THEN resp.param ELSE resp.header

\* C17: every retried 429 answer is followed by exactly one sleep; when the
\* answer carries a wait hint of h seconds (h >= 0) the sleep lasts h seconds,
\* and the exponential fallback is used only when there is no hint.
C17_HintPreferred ==
    sendPc # "off" =>
        /\ Len(sleeps) = attempt
        /\ \A k \in 1..Len(sleeps) :
               sleeps[k] = IF HintOf(sendLog[k]) # <<>>
                           THEN HintOf(sendLog[k])[1] * MsPerSec
                           ELSE BackoffBase * Pow2(k - 1)

(***************************************************************************)
(* The catch block of scrape                                               *)
(***************************************************************************)
\* the failure notices the transport accepted in this run
FailureNoticesSent == Cardinality({k \in 1..Len(sent) : sent[k].kind = "failure"})

\* C18: when a step of the pipeline raises (start announcement, classify, a
\* chunk send, the no-new-items send), scrape makes exactly one safeSend call
\* for the failure notice, whatever that call does, and then rejects with the
\* error of the step; without a raised step there is no notice and no error.
C18_OneNoticeThenOriginal ==
    /\ pc = "failed" =>
           /\ err \in {"announce", "classify", "chunk", "noNew"}
           /\ noticeCalls = 1
           /\ thrown = err
    /\ pc # "failed" => noticeCalls = 0 /\ thrown = "none"
    /\ pc \notin {"catch", "failed"} => err = "none"
    /\ FailureNoticesSent <= noticeCalls

\* a chunk send raised, the failure notice raised too, and scrape rejected
\* with the error of the chunk send
C18_Witness ==
    /\ pc = "failed" /\ err = "chunk" /\ thrown = "chunk"
    /\ noticeCalls = 1 /\ FailureNoticesSent = 0

(***************************************************************************)
(* The orchestrator                                                        *)
(***************************************************************************)
AllCompleted == prog # "off" /\ \A t \in Topics : tpc[t] \in Completed

\* C19: a failure in one project's pipeline never stops another project's:
\* whatever the interleaving, every other project that is not disabled can
\* take its next step, and all of them run to the end of their pipelines.
C19_TopicIsolation ==
    /\ [](\A u \in Topics : (prog # "off" /\ tpc[u] \in Running) => ENABLED TopicRuns(u))
    /\ ((prog # "off" /\ \E t \in Topics : tpc[t] = "failed") ~> AllCompleted)

\* a project failed while another was still running, and that one has
\* finished its pipeline with success since
C19_Witness ==
    /\ prog = "rejected"
    /\ \E t, u \in Topics :
           /\ tpcAtSettle[t] = "failed"
           /\ tpcAtSettle[u] \in Running
           /\ tpc[u] = "done"

\* C20: the promise of program() settles only after the pipeline of every
\* project that is not disabled has completed.
C20_SettlesAfterAll ==
    prog \in {"resolved", "rejected"} =>
        \A t \in Topics : tpcAtSettle[t] \in Completed

(***************************************************************************)
(* The first poll without the bootstrap rule                               *)
(***************************************************************************)
\* a classify call without the bootstrap rule on a topic without prior state
FirstPollNoBootstrap ==
    /\ lastCall.n >= 1 /\ ~lastCall.raised /\ ~bootstrapIfEmpty
    /\ lastCall.pre.kind # "nonArray"
    /\ KnownAfterLoad(lastCall.pre) = {}

\* the entries with a resolvable id that no earlier entry of the list has
RECURSIVE FirstOfEachId(_, _)
FirstOfEachId(items, seen) ==
    IF items = <<>> THEN <<>>
    ELSE LET id == IdOf(Head(items).link)
         IN  IF id # <<>> /\ id \notin seen
             THEN <<Head(items)>> \o FirstOfEachId(Tail(items), seen \cup {id})
             ELSE FirstOfEachId(Tail(items), seen)

\* C21 as stated: with the bootstrap rule disabled and no prior state,
\* classify returns every entry with a resolvable id, in input order, and
\* persists the ids of those entries.
C21_FirstPollAllNewAsStated ==
    FirstPollNoBootstrap =>
        /\ lastCall.newItems = UnknownIn(lastCall.items, {})
        /\ KnownAfterLoad(lastCall.post) = IdsOfList(lastCall.items)

\* C21 (amended): with the bootstrap rule disabled and no prior state,
\* classify returns, in input order, the entries with a resolvable id (the
\* single-page version: only the first entry of each id), and persists ids of
\* those entries only: all of them when the poll has at most N distinct ids,
\* N of them otherwise.
C21_FirstPollAllNew ==
    FirstPollNoBootstrap =>
        /\ lastCall.newItems = IF ver = "single"
                               THEN FirstOfEachId(lastCall.items, {})
                               ELSE UnknownIn(lastCall.items, {})
        /\ KnownAfterLoad(lastCall.post) \subseteq IdsOfList(lastCall.items)
        /\ Cardinality(KnownAfterLoad(lastCall.post)) =
              IF Cardinality(IdsOfList(lastCall.items)) <= KeepIds
              THEN Cardinality(IdsOfList(lastCall.items)) ELSE KeepIds

\* the first poll of a topic without file, bootstrap disabled in the
\* multi-page version: two entries with an id and one without
C21_Witness ==
    /\ FirstPollNoBootstrap /\ ver = "multi" /\ lastCall.n = 1
    /\ lastCall.pre = MissingFile
    /\ Len(lastCall.newItems) >= 2
    /\ Len(lastCall.newItems) < Len(lastCall.items)
    /\ lastCall.pushPost

(***************************************************************************)
(* The pagination mode of collectItemsAcrossPages                          *)
(***************************************************************************)
\* fetch k showed a next link
ShowedNext(k) == fetchLog[k].ok /\ fetchLog[k].next # <<>>

\* fetch k was made in follow-next mode: an earlier page showed a next link
\* (fetch j is page index j, and j < k <= pagesToScan)
FollowAt(k) == \E j \in 1..(k - 1) : ShowedNext(j)

\* the last fetch before k that showed a next link
LastShownBefore(k) == CHOOSE j \in 1..(k - 1) :
                         ShowedNext(j) /\ \A i \in (j + 1)..(k - 1) : ~ShowedNext(i)

\* C22: collect starts in page-parameter mode (page 1: the base URL; page
\* k > 1: the base URL with page=k), is in follow-next mode from the first
\* page on that showed a next link while budget remained, and from then on
\* never goes back: every later fetch takes the next link carried over.
C22_PaginationMode ==
    traceCollect =>
        /\ \A k \in 1..Len(fetchLog) :
               fetchLog[k].url =
                   IF FollowAt(k) THEN fetchLog[LastShownBefore(k)].next
                   ELSE IF k = 1 THEN BaseUrl
                   ELSE BaseUrl \o <<"?", "page=" \o ToString(k)>>
        /\ pc = "collect" => usedDetectedNext = FollowAt(p)

\* three fetches: the base URL, the next link of page 1, the next link of page 2
C22_Witness ==
    /\ traceCollect /\ Len(fetchLog) = 3
    /\ fetchLog[1].url = BaseUrl /\ fetchLog[1].next = NextUrl
    /\ fetchLog[2].url = NextUrl /\ fetchLog[2].next = NextUrl2
    /\ fetchLog[3].url = NextUrl2

\* C23: in follow-next mode a page fetched successfully that shows no next
\* link is the last fetch of the run, whatever budget remains; in
\* page-parameter mode a page without next link does not end the loop.
C23_EarlyStop ==
    traceCollect =>
        \A k \in 1..Len(fetchLog) :
            (fetchLog[k].ok /\ fetchLog[k].next = <<>>) =>
                IF FollowAt(k)
                THEN k = Len(fetchLog) /\ pc = "classify"
                ELSE k < MaxPages => (Len(fetchLog) > k \/ (pc = "collect" /\ p = k + 1))

\* collect ended after two fetches with budget left: page 2, fetched by the
\* next link of page 1, showed no next link
C23_Witness ==
    /\ traceCollect /\ pc = "classify"
    /\ Len(fetchLog) = 2 /\ Len(fetchLog) < MaxPages
    /\ ShowedNext(1) /\ fetchLog[2].ok /\ fetchLog[2].next = <<>>

(***************************************************************************)
(* The truncation rule of the batcher                                      *)
(***************************************************************************)
\* the line cannot be the only line of a chunk
TooLongAlone(line, headerLen, maxChars) == headerLen + 2 + line.len + 1 > maxChars - Reserve

\* C24: a line is truncated if and only if it cannot fit as the only line of
\* a chunk (header + 2 + line + 1 > maxChars - 40), wherever it stands in the
\* input; a line that fits alone is emitted as it is.
C24_TruncatedIffTooLong ==
    batch.called =>
        LET flat == Flatten(batch.chunks)
        IN  \A k \in 1..Len(flat) :
               flat[k].cut <=> TooLongAlone(batch.lines[k], batch.headerLen, batch.maxChars)

(***************************************************************************)
(* The exponential fallback of safeSend                                    *)
(***************************************************************************)
\* a 429 answer with neither retry_after parameter nor retry-after header
Unhinted(resp) == Is429(resp) /\ resp.param = <<>> /\ resp.header = <<>>

\* the un-hinted 429 answers among the first k - 1 attempts
UnhintedBefore(k) == Cardinality({j \in 1..(k - 1) : Unhinted(sendLog[j])})

\* C25 as stated: the sleep after an un-hinted 429 answer is the base delay
\* for the first un-hinted retry of the call and doubles with each further
\* un-hinted retry, hinted retries not counting.
C25_FallbackDoublesAsStated ==
    sendPc # "off" =>
        \A k \in 1..Len(sleeps) :
            Unhinted(sendLog[k]) => sleeps[k] = BackoffBase * Pow2(UnhintedBefore(k))

\* C25 (amended): the sleep after an un-hinted 429 answer to the k-th attempt
\* of a call is the base delay doubled k - 1 times: every earlier retry of
\* the call counts, hinted or not.
C25_FallbackDoubles ==
    sendPc # "off" =>
        \A k \in 1..Len(sleeps) :
            Unhinted(sendLog[k]) => sleeps[k] = BackoffBase * Pow2(k - 1)

\* a hinted retry followed by two un-hinted ones
C25_Witness ==
    /\ Len(sleeps) = 3
    /\ ~Unhinted(sendLog[1]) /\ Unhinted(sendLog[2]) /\ Unhinted(sendLog[3])
    /\ sleeps[2] = 2 * BackoffBase /\ sleeps[3] = 4 * BackoffBase

(***************************************************************************)
(* The order of the chunks                                                 *)
(***************************************************************************)
\* the chunk messages the transport accepted in this run, in the order of sending
ChunkMsgs == LET IsChunk(m) == m.kind = "chunk" IN SelectSeq(sent, IsChunk)

\* C26: the chunks of a topic are sent in order, each after the one before
\* was delivered: the chunks delivered are always chunk 1 to chunk k for some
\* k; when the send of a chunk raised, all chunks before it are delivered and
\* none after it is ever sent; when notifying ended well, all are delivered.
C26_ChunksInOrder ==
    pc # "off" =>
        /\ \A k \in 1..Len(ChunkMsgs) : ChunkMsgs[k].i = k
        /\ Len(ChunkMsgs) = chunkIdx /\ chunkIdx <= Len(groups)
        /\ err = "chunk" => Len(ChunkMsgs) < Len(groups)
        /\ (pc = "done" /\ Len(groups) > 0) => Len(ChunkMsgs) = Len(groups)

\* of three chunks the first was delivered, the send of the second raised,
\* and scrape has failed without sending the third
C26_Witness ==
    /\ pc = "failed" /\ err = "chunk"
    /\ Len(groups) = 3 /\ chunkIdx = 1
    /\ Len(ChunkMsgs) = 1 /\ ChunkMsgs[1].i = 1

\* C27: load, classify and persist of one checkIfHasNewItem call are atomic
\* among the concurrent projects, also when two projects have the same topic
\* key: between the load of a call and its write no other project loads or
\* writes the same file, and no written id is lost from the file.
C27_ClassifyAtomic ==
    prog # "off" =>
        \A key \in TopicKeys :
            /\ \A i, j, k \in 1..Len(ioLog[key]) :
                   (i < j /\ j < k /\ ioLog[key][i].op = "load"
                    /\ ioLog[key][k].op = "write" /\ ioLog[key][i].t = ioLog[key][k].t)
                   => ioLog[key][j].t = ioLog[key][i].t
            /\ store[key] = written[key]

\* two projects with the same topic key have both written its file, the
\* second one an id the first one did not poll, and the file holds both ids
C27_Witness ==
    /\ prog # "off"
    /\ \E t, u \in Topics :
           /\ t # u /\ topicKey[t] = topicKey[u]
           /\ LET log == ioLog[topicKey[t]]
              IN  \E i, j \in 1..Len(log) :
                      /\ i < j
                      /\ log[i].t = t /\ log[i].op = "write"
                      /\ log[j].t = u /\ log[j].op = "write"
           /\ store[topicKey[t]] = {IdA, IdB}

\* the page of this run failed
PageFailedThisRun ==
    \E i \in 1..Len(fetchLog) : fetchLog[i].run = run /\ ~fetchLog[i].ok

\* the new-items and "no new items" messages sent in this run
ResultMsgs == {k \in 1..Len(sent) : sent[k].kind \in {"chunk", "noNew"}}

\* C28: in the single-page variant a page that is blocked or has no feed item
\* fails the topic: scrape() goes to its catch with that error, one failure
\* notice is attempted and the error rethrown, no new-items or "no new items"
\* message is sent, checkIfHasNewItem is not called, and the per-topic file
\* and the work-occurred marker are as they were when the page was fetched.
C28_SinglePageFailsTopic ==
    (ver = "single" /\ PageFailedThisRun) =>
        /\ pc \in {"catch", "failed"}
        /\ err \in PageFailures
        /\ ResultMsgs = {}
        /\ lastCall = NoCall
        /\ \A i \in 1..Len(fetchLog) :
               fetchLog[i].run = run =>
                   file = fetchLog[i].file /\ pushFlag = fetchLog[i].pushFlag
        /\ pc = "failed" => (noticeCalls = 1 /\ thrown = err)

\* after a run that saved ids and set the marker, a run met the captcha
\* page and has ended with the failure notice delivered
C28_Witness ==
    /\ ver = "single" /\ PageFailedThisRun
    /\ pc = "failed" /\ err = "blocked" /\ thrown = "blocked"
    /\ pushFlag
    /\ sent = <<Message("start", 0), Message("failure", 0)>>

\* the last checkIfHasNewItem call got no entry, and the file it loaded gave
\* at least one known id
EmptyPollOnHistory ==
    lastCall.n >= 1 /\ lastCall.items = <<>> /\ KnownAfterLoad(lastCall.pre) # {}

\* C29: a checkIfHasNewItem call with an empty entry list on a prior state
\* that gives at least one known id returns no entry, is no bootstrap, and
\* leaves the per-topic file and the work-occurred marker as they were.
C29_EmptyPollFrame ==
    EmptyPollOnHistory =>
        /\ ~lastCall.raised
        /\ lastCall.newItems = <<>>
        /\ ~lastCall.boot
        /\ lastCall.post = lastCall.pre
        /\ lastCall.pushPost = lastCall.pushPre

\* an empty poll, with bootstrap configured, on a file that still holds the
\* links of the legacy format: the file is left as it was, links included
C29_Witness ==
    /\ EmptyPollOnHistory
    /\ ver = "multi" /\ bootstrapIfEmpty
    /\ lastCall.pre \in LegacyFiles
    /\ file = lastCall.pre

====
